---- MODULE Spec2Model ----
(***************************************************************************)
(* Inequalities Quest (src/app.py): the inequality parser, the solver, the *)
(* student-answer parser and grader, the endpoint explanation, the number  *)
(* line and the session counters.                                          *)
(*                                                                         *)
(* Text is a sequence of characters, each character a one-element string.  *)
(* The glyphs that are not ASCII are written by name:                      *)
(*   "INF" is the infinity sign, "CUP" the union sign, "EMPTY" the empty   *)
(*   set sign, "BBR" the double-struck R, "NL" a line feed.                *)
(*                                                                         *)
(* A set of reals whose endpoints are integers of -MaxCoord..MaxCoord is   *)
(* held as the set of the cells it covers: cell 2k is the point k, cell    *)
(* 2k+1 the open gap (k, k+1), cell -(2*MaxCoord+1) the ray below          *)
(* -MaxCoord and cell 2*MaxCoord+1 the ray above MaxCoord.  SymPy keeps    *)
(* such a set in one canonical form (an Interval, a FiniteSet or a Union   *)
(* of them, merged and ordered by infimum), so two of them are equal       *)
(* exactly when they cover the same cells; Args gives back the canonical   *)
(* form.                                                                   *)
(***************************************************************************)
EXTENDS Integers, Sequences, FiniteSets, TLC

VARIABLES
    line,           \* parse_inequality: the raw line
    rel,            \* parse_inequality: what the call produced
    exercise,       \* st.session_state.exercise (an index of EXERCISES)
    score,          \* st.session_state.score
    streak,         \* st.session_state.streak
    topic_filter,   \* st.session_state.topic_filter
    last_solution,  \* st.session_state.last_solution
    reveal,         \* the reveal toggle
    user_answer,    \* the text area of the activity tab
    student_set,    \* the last run's parse_student_set(user_answer)
    correct,        \* the last run's verdict
    shown,          \* the last run's message: success, error, warning, exception
    ineq,           \* the relation handed to solve_ineq
    sol,            \* solve_ineq's result
    endpoint_lines, \* endpoint_explanation's result
    view,           \* the slider's (xmin, xmax)
    plot,           \* plot_number_line's drawing
    raw,            \* the explore tab's lines
    pc,             \* the explore tab's position in its run
    parsed,         \* the explore tab's (line, sol) list
    common,         \* the explore tab's intersection
    reported        \* the explore tab's displayed per-line results

vars == <<line, rel, exercise, score, streak, topic_filter, last_solution,
          reveal, user_answer, student_set, correct, shown, ineq, sol,
          endpoint_lines, view, plot, raw, pc, parsed, common, reported>>

(***************************************************************************)
(* Bounds of the model.                                                    *)
(***************************************************************************)
MaxCoord == 8
MaxRoot == 2
MaxLineLen == 4
MaxParts == 2
MaxView == 3
MaxLines == 2
MaxChecks == 3

(***************************************************************************)
(* Python values.                                                          *)
(***************************************************************************)
None == [cls |-> "NoneType"]
PyTrue == [cls |-> "bool", val |-> TRUE]
PyFalse == [cls |-> "bool", val |-> FALSE]
PyBool(b) == IF b THEN PyTrue ELSE PyFalse
\* SymPy's truth values are objects of their own, not Python's True and False
S_true == [cls |-> "BooleanTrue", val |-> TRUE]
S_false == [cls |-> "BooleanFalse", val |-> FALSE]
\* _sympify of a Python bool
SympifyBool(b) == IF b THEN S_true ELSE S_false
\* `a is b` for the singletons None, True, False, S.true, S.false
PyIs(a, b) == a.cls = b.cls /\ (a.cls = "NoneType" \/ a.val = b.val)
\* the truth value of an object in an `if`
Truthy(a) == a.cls # "NoneType" /\ a.val

(***************************************************************************)
(* Extended reals: <<-1,0>> is -oo, <<1,0>> is oo, <<0,n>> is n.           *)
(***************************************************************************)
NegativeInfinity == <<-1, 0>>
Infinity == <<1, 0>>
Fin(n) == <<0, n>>
IsFinite(e) == e[1] = 0
ELt(a, b) == a[1] < b[1] \/ (a[1] = b[1] /\ a[2] < b[2])
ENeg(e) == <<-e[1], -e[2]>>

(***************************************************************************)
(* Cells.                                                                  *)
(***************************************************************************)
CellMax == 2 * MaxCoord + 1
Cells == (-CellMax)..CellMax
\* the doubled coordinate of an extended real
Pos(e) == IF e[1] = 0 THEN 2 * e[2] ELSE e[1] * (CellMax + 1)
\* the extended real at an even doubled coordinate
AtPos(p) == IF p > CellMax THEN Infinity
            ELSE IF p < -CellMax THEN NegativeInfinity ELSE Fin(p \div 2)
IsPoint(c) == c % 2 = 0

EmptySet == {}
Reals == Cells


(***************************************************************************)
(* sympy.Interval, sympy.Union, sympy.Intersection on these sets.          *)
(***************************************************************************)
\* Interval.__new__: an empty, a one-point or a proper interval; an infinite
\* end is always open
Interval(start, end_, left_open, right_open) ==
    LET lo == SympifyBool(left_open)
        ro == SympifyBool(right_open)
    IN  IF ELt(end_, start) THEN EmptySet
        ELSE IF end_ = start /\ (Truthy(lo) \/ Truthy(ro)) THEN EmptySet
        ELSE IF end_ = start
             THEN (IF IsFinite(start) THEN {Pos(end_)} ELSE EmptySet)
        ELSE {c \in Cells : Pos(start) < c /\ c < Pos(end_)}
             \cup (IF IsFinite(start) /\ ~Truthy(lo) THEN {Pos(start)} ELSE {})
             \cup (IF IsFinite(end_) /\ ~Truthy(ro) THEN {Pos(end_)} ELSE {})

Union(A, B) == A \cup B
Intersection(A, B) == A \cap B
\* sympy.simplify of a set that is already in canonical form
simplify(A) == A

\* the last cell of the run of A that starts at cell c
RECURSIVE RunEnd(_, _)
RunEnd(A, c) == IF (c + 1) \in A THEN RunEnd(A, c + 1) ELSE c

\* the canonical argument that covers the run lo..hi: a FiniteSet for one
\* point, else an Interval object (start, end, left_open, right_open)
Piece(lo, hi) ==
    IF lo = hi /\ IsPoint(lo)
    THEN [cls |-> "FiniteSet", start |-> AtPos(lo), end_ |-> AtPos(lo),
          left_open |-> S_false, right_open |-> S_false]
    ELSE [cls |-> "Interval",
          start |-> IF IsPoint(lo) THEN AtPos(lo) ELSE AtPos(lo - 1),
          end_ |-> IF IsPoint(hi) THEN AtPos(hi) ELSE AtPos(hi + 1),
          left_open |-> SympifyBool(~IsPoint(lo)),
          right_open |-> SympifyBool(~IsPoint(hi))]

\* the arguments of the canonical form, ordered by infimum
RECURSIVE ArgsFrom(_, _)
ArgsFrom(A, from) ==
    LET starts == {c \in A : c >= from /\ (c - 1) \notin A}
    IN  IF starts = {} THEN <<>>
        ELSE LET lo == CHOOSE c \in starts : \A d \in starts : c <= d
                 hi == RunEnd(A, lo)
             IN  <<Piece(lo, hi)>> \o ArgsFrom(A, hi + 1)
Args(A) == ArgsFrom(A, -CellMax)

\* isinstance(A, sp.Interval) and isinstance(A, sp.Union)
IsInterval(A) == LET args == Args(A) IN Len(args) = 1 /\ args[1].cls = "Interval"
IsUnion(A) == LET args == Args(A)
              IN  Len(args) >= 2 /\ \E i \in 1..Len(args) : args[i].cls = "Interval"

\* [arg for arg in sol_set.args if isinstance(arg, sp.Interval)]
RECURSIVE SelectIntervals(_)
SelectIntervals(s) ==
    IF s = <<>> THEN <<>>
    ELSE (IF Head(s).cls = "Interval" THEN <<Head(s)>> ELSE <<>>)
         \o SelectIntervals(Tail(s))

(***************************************************************************)
(* Python string operations.                                               *)
(***************************************************************************)
Whitespace == {" ", "NL"}

RECURSIVE LStrip(_)
LStrip(s) == IF s # <<>> /\ Head(s) \in Whitespace THEN LStrip(Tail(s)) ELSE s
RECURSIVE RStrip(_)
RStrip(s) == IF s # <<>> /\ s[Len(s)] \in Whitespace
             THEN RStrip(SubSeq(s, 1, Len(s) - 1)) ELSE s
\* str.strip()
Strip(s) == RStrip(LStrip(s))

\* str.replace(c, to) for a one-character c
RECURSIVE Replace(_, _, _)
Replace(s, c, to) ==
    IF s = <<>> THEN <<>>
    ELSE (IF Head(s) = c THEN to ELSE <<Head(s)>>) \o Replace(Tail(s), c, to)

\* the index of the first occurrence of sub in s at or after i, 0 when none
RECURSIVE FindFrom(_, _, _)
FindFrom(s, sub, i) ==
    IF i + Len(sub) - 1 > Len(s) THEN 0
    ELSE IF SubSeq(s, i, i + Len(sub) - 1) = sub THEN i
    ELSE FindFrom(s, sub, i + 1)
Find(s, sub) == FindFrom(s, sub, 1)
\* `sub in s`
Contains(s, sub) == Find(s, sub) # 0

\* str.split(sep): every piece between occurrences of sep
RECURSIVE Split(_, _)
Split(s, sep) ==
    LET i == Find(s, sep)
    IN  IF i = 0 THEN <<s>>
        ELSE <<SubSeq(s, 1, i - 1)>> \o Split(SubSeq(s, i + Len(sep), Len(s)), sep)

\* str.split(sep, 1): the text before and after the first occurrence
Split1(s, sep) ==
    LET i == Find(s, sep)
    IN  IF i = 0 THEN <<s>>
        ELSE <<SubSeq(s, 1, i - 1), SubSeq(s, i + Len(sep), Len(s))>>


(***************************************************************************)
(* sympify of an interval bound typed by the student, after the infinity   *)
(* sign became "oo": any number of leading minus signs, then a decimal     *)
(* integer or oo.  Anything else over these characters ("", "-", "1-",     *)
(* "1oo") is a syntax error, which sympify raises as SympifyError.         *)
(***************************************************************************)
Digits == {"0", "1", "2", "3", "4", "5", "6", "7", "8", "9"}
DigitVal(c) == CHOOSE n \in 0..9 : <<"0", "1", "2", "3", "4", "5", "6", "7", "8", "9">>[n + 1] = c

RECURSIVE Decimal(_)
Decimal(s) == IF s = <<>> THEN 0
              ELSE 10 * Decimal(SubSeq(s, 1, Len(s) - 1)) + DigitVal(s[Len(s)])

Raised(exc) == [kind |-> "raise", exc |-> exc, val |-> Fin(0)]
Value(v) == [kind |-> "value", exc |-> "", val |-> v]

RECURSIVE sympify_bound(_)
sympify_bound(s) ==
    IF s = <<>> THEN Raised("SympifyError")
    ELSE IF Head(s) = "-"
         THEN LET r == sympify_bound(Tail(s))
              IN  IF r.kind = "value" THEN Value(ENeg(r.val)) ELSE r
    ELSE IF s = <<"o", "o">> THEN Value(Infinity)
    ELSE IF \A i \in 1..Len(s) : s[i] \in Digits THEN Value(Fin(Decimal(s)))
    ELSE Raised("SympifyError")

(***************************************************************************)
(* parse_student_set (src/app.py 297-322)                                  *)
(***************************************************************************)
EmptyTokens == { <<"EMPTY">>, <<"E", "m", "p", "t", "y", "S", "e", "t">> }
RealsTokens == { <<"R">>, <<"R", "e", "a", "l", "s">>, <<"BBR">> }

NoMatch == [matched |-> FALSE, lbr |-> "", a |-> <<>>, b |-> <<>>, rbr |-> ""]
\* re.match(r"^([\(\[])([^,]+),([^)\]]+)([\)\]])$", p): the first group is one
\* bracket, the second runs to the first comma, the third holds no closing
\* bracket and runs to the last character, which is the fourth ($ also
\* matches before a final line feed)
MatchPart(p0) ==
    LET p == IF p0 # <<>> /\ p0[Len(p0)] = "NL" THEN SubSeq(p0, 1, Len(p0) - 1) ELSE p0
        n == Len(p)
        k == Find(p, <<",">>)
    IN  IF /\ n >= 5
           /\ p[1] \in {"(", "["}
           /\ k >= 3
           /\ k <= n - 2
           /\ \A i \in (k + 1)..(n - 1) : p[i] \notin {")", "]"}
           /\ p[n] \in {")", "]"}
        THEN [matched |-> TRUE, lbr |-> p[1], a |-> SubSeq(p, 2, k - 1),
              b |-> SubSeq(p, k + 1, n - 1), rbr |-> p[n]]
        ELSE NoMatch

ReturnNone == [kind |-> "None", exc |-> "", set |-> {}]
ReturnSet(A) == [kind |-> "Set", exc |-> "", set |-> A]
Raise(exc) == [kind |-> "raise", exc |-> exc, set |-> {}]

\* lines 314-317: the bounds of a matched part, then the rest of the parts
RECURSIVE ParseParts(_, _)
ParseMatched(m, a, b, rest, sets) ==
    IF a.kind = "raise" THEN Raise(a.exc)
    ELSE IF b.kind = "raise" THEN Raise(b.exc)
    ELSE ParseParts(rest, Union(sets, Interval(a.val, b.val, m.lbr = "(", m.rbr = ")")))

\* lines 310-313: a part that does not match returns None
ParsePart(m, rest, sets) ==
    IF ~m.matched THEN ReturnNone
    ELSE ParseMatched(m, sympify_bound(m.a), sympify_bound(m.b), rest, sets)

\* the loop over the parts: the first part that does not match returns None,
\* the first bound sympify rejects raises; sets holds the intervals so far
ParseParts(parts, sets) ==
    IF parts = <<>> THEN ReturnSet(sets)
    ELSE ParsePart(MatchPart(Head(parts)), Tail(parts), sets)

\* line 322: the union of the parts, cut to the reals and simplified
ParseOutcome(r) ==
    IF r.kind = "Set" THEN ReturnSet(simplify(Intersection(r.set, Reals))) ELSE r

\* lines 306-322: the text after the union sign is rewritten; the infinity
\* sign and the blanks are rewritten, the parts are parsed and joined
parse_parts_of(s1) ==
    ParseOutcome(ParseParts(Split(Replace(Replace(s1, "INF", <<"o", "o">>), " ", <<>>),
                                  <<"U">>),
                            EmptySet))

\* lines 301-305: the union sign is rewritten and the tokens are tested
parse_stripped(s1) ==
    IF s1 \in EmptyTokens THEN ReturnSet(EmptySet)
    ELSE IF s1 \in RealsTokens THEN ReturnSet(Reals)
    ELSE parse_parts_of(s1)

\* a parser that takes no answer for the answer "no solution"
parse_blank_as_empty(text) ==
    IF Strip(text) = <<>> THEN ReturnSet(EmptySet)
    ELSE parse_stripped(Replace(Strip(text), "CUP", <<"U">>))

parse_student_set(text) ==
    IF Strip(text) = <<>> THEN ReturnNone
    ELSE parse_stripped(Replace(Strip(text), "CUP", <<"U">>))


(***************************************************************************)
(* Symbolic expressions in x, as sympify builds them, and their value at   *)
(* the point t/2 as a fraction <<n, d>> with d > 0; <<0, 0>> is undefined  *)
(* (a division by zero).  The exponent of a power is a natural number in   *)
(* every relation that is solved, and x is the only symbol.                *)
(***************************************************************************)
X == [op |-> "x"]
Int_(n) == [op |-> "Int", n |-> n]
Add(a, b) == [op |-> "Add", l |-> a, r |-> b]
Sub(a, b) == [op |-> "Sub", l |-> a, r |-> b]
Mul(a, b) == [op |-> "Mul", l |-> a, r |-> b]
Div(a, b) == [op |-> "Div", l |-> a, r |-> b]
Pow(a, b) == [op |-> "Pow", l |-> a, r |-> b]
Symbol(name) == [op |-> "Symbol", name |-> name]
Abs(a) == [op |-> "Abs", l |-> a]

Undefined == <<0, 0>>
IsDefined(v) == v[2] # 0
AbsInt(n) == IF n < 0 THEN -n ELSE n
Sgn(n) == IF n < 0 THEN -1 ELSE IF n > 0 THEN 1 ELSE 0

RECURSIVE PowFrac(_, _)
PowFrac(v, n) == IF n = 0 THEN <<1, 1>>
                 ELSE LET w == PowFrac(v, n - 1) IN <<v[1] * w[1], v[2] * w[2]>>

RECURSIVE Eval(_, _)
Eval(e, t) ==
    IF e.op = "x" THEN <<t, 2>>
    ELSE IF e.op = "Int" THEN <<e.n, 1>>
    ELSE IF e.op = "Symbol" THEN Undefined
    ELSE LET a == Eval(e.l, t)
         IN  IF ~IsDefined(a) THEN Undefined
             ELSE IF e.op = "Abs" THEN <<AbsInt(a[1]), a[2]>>
             ELSE LET b == Eval(e.r, t)
                  IN  IF ~IsDefined(b) THEN Undefined
                      ELSE IF e.op = "Pow"
                           THEN (IF b[2] = 1 /\ b[1] >= 0 THEN PowFrac(a, b[1])
                                 ELSE Undefined)
                      ELSE IF e.op = "Add" THEN <<a[1] * b[2] + b[1] * a[2], a[2] * b[2]>>
                      ELSE IF e.op = "Sub" THEN <<a[1] * b[2] - b[1] * a[2], a[2] * b[2]>>
                      ELSE IF e.op = "Mul" THEN <<a[1] * b[1], a[2] * b[2]>>
                      ELSE IF b[1] = 0 THEN Undefined
                      ELSE <<a[1] * b[2] * Sgn(b[1]), a[2] * AbsInt(b[1])>>

\* sp.Lt, sp.Le, sp.Gt, sp.Ge applied to two expressions
Relational(func, L, R) == [func |-> func, lhs |-> L, rhs |-> R]

(***************************************************************************)
(* solve_ineq (src/app.py 42-45).  solve_univariate_inequality collects    *)
(* the zeros of lhs - rhs and the singularities (the zeros of its          *)
(* denominators), walks them in increasing order, tests one point of each  *)
(* open stretch between them and each zero itself, and never keeps a       *)
(* singularity.  The zeros and singularities of the relations of this      *)
(* model are integers of -MaxCoord..MaxCoord.                              *)
(***************************************************************************)
Coords == (-MaxCoord)..MaxCoord

\* valid(x) of solve_univariate_inequality at the point t/2
Satisfies(func, n) ==
    \/ func = "Lt" /\ n < 0
    \/ func = "Le" /\ n <= 0
    \/ func = "Gt" /\ n > 0
    \/ func = "Ge" /\ n >= 0
valid(r, t) ==
    LET v == Eval(Sub(r.lhs, r.rhs), t)
    IN  IsDefined(v) /\ Satisfies(r.func, v[1])

Zeros(r) == {k \in Coords : LET v == Eval(Sub(r.lhs, r.rhs), 2 * k)
                            IN  IsDefined(v) /\ v[1] = 0}
Singularities(r) == {k \in Coords : ~IsDefined(Eval(Sub(r.lhs, r.rhs), 2 * k))}

\* _pt(start, end) doubled, for the stretch around cell c between the
\* critical points crit
TestPoint(crit, c) ==
    LET below == {k \in crit : 2 * k < c}
        above == {k \in crit : 2 * k > c}
        start == CHOOSE k \in below : \A j \in below : j <= k
        end_ == CHOOSE k \in above : \A j \in above : k <= j
    IN  IF below = {} /\ above = {} THEN 0
        ELSE IF below = {} THEN 2 * (end_ - 1)
        ELSE IF above = {} THEN 2 * (start + 1)
        ELSE start + end_

\* a solver that treats a singularity like a zero of the expression
solve_keeping_singularities(r) ==
    LET zeros == Zeros(r)
        singularities == Singularities(r)
        crit == zeros \cup singularities
    IN  {c \in Cells : IF IsPoint(c) /\ (c \div 2) \in crit
                       THEN \/ valid(r, c)
                            \/ (c \div 2) \in singularities /\ r.func \in {"Le", "Ge"}
                       ELSE valid(r, TestPoint(crit, c))}

solve_univariate_inequality(r) ==
    LET zeros == Zeros(r)
        singularities == Singularities(r)
        crit == zeros \cup singularities
    IN  {c \in Cells : IF IsPoint(c) /\ (c \div 2) \in crit
                       THEN (c \div 2) \notin singularities /\ valid(r, c)
                       ELSE valid(r, TestPoint(crit, c))}

solve_ineq(r) ==
    LET s == solve_univariate_inequality(r)
    IN  simplify(Intersection(s, Reals))


(***************************************************************************)
(* The exercise bank (src/app.py 127-142): each inequality as              *)
(* parse_inequality builds it from the exercise's "ineq" text.             *)
(***************************************************************************)
EXERCISES == <<
    [id |-> "A1", topic |-> "Linear",
     ineq |-> Relational("Le", Sub(Mul(Int_(2), X), Int_(3)), Int_(5))],
    [id |-> "A2", topic |-> "Linear",
     ineq |-> Relational("Gt", Add(Mul(Int_(-3), X), Int_(6)), Int_(0))],
    [id |-> "B1", topic |-> "Quadratic",
     ineq |-> Relational("Ge", Add(Sub(Pow(X, Int_(2)), Mul(Int_(5), X)), Int_(6)), Int_(0))],
    [id |-> "B2", topic |-> "Quadratic",
     ineq |-> Relational("Lt", Sub(Pow(X, Int_(2)), Int_(9)), Int_(0))],
    [id |-> "C1", topic |-> "Rational",
     ineq |-> Relational("Ge", Div(Sub(X, Int_(1)), Add(X, Int_(2))), Int_(0))],
    [id |-> "D1", topic |-> "Absolute",
     ineq |-> Relational("Le", Abs(Sub(X, Int_(3))), Int_(5))],
    [id |-> "D2", topic |-> "Absolute",
     ineq |-> Relational("Gt", Abs(Add(Mul(Int_(2), X), Int_(1))), Int_(3))] >>

Topics == {"All"} \cup {EXERCISES[i].topic : i \in 1..Len(EXERCISES)}

\* pick_random_exercise: the exercises random.choice may return
pick_random_exercise(filter) ==
    {i \in 1..Len(EXERCISES) : filter = "All" \/ EXERCISES[i].topic = filter}

\* compute_solution (src/app.py 292-295) for each exercise of the bank
Solutions == [i \in 1..Len(EXERCISES) |-> solve_ineq(EXERCISES[i].ineq)]
compute_solution(ex) == Solutions[ex]


(***************************************************************************)
(* endpoint_explanation (src/app.py 47-73)                                 *)
(***************************************************************************)
RECURSIVE DigitsOf(_)
DigitsOf(n) ==
    LET d == <<"0", "1", "2", "3", "4", "5", "6", "7", "8", "9">>[(n % 10) + 1]
    IN  IF n < 10 THEN <<d>> ELSE DigitsOf(n \div 10) \o <<d>>
\* sp.pretty of an integer
pretty(n) == IF n < 0 THEN <<"-">> \o DigitsOf(-n) ELSE DigitsOf(n)

fmt(v) == IF v = NegativeInfinity THEN <<"-", "INF">>
          ELSE IF v = Infinity THEN <<"INF">>
          ELSE pretty(v[2])

\* the line appended for interval I
ExplainInterval(I) ==
    LET left_closed == PyIs(I.left_open, PyFalse)
        right_closed == PyIs(I.right_open, PyFalse)
    IN  [left_symbol |-> IF left_closed THEN "[" ELSE "(",
         a |-> fmt(I.start),
         b |-> fmt(I.end_),
         right_symbol |-> IF right_closed THEN "]" ELSE ")",
         left_label |-> IF left_closed THEN "closed" ELSE "open",
         right_label |-> IF right_closed THEN "closed" ELSE "open"]

PyList(items) == [cls |-> "list", items |-> items]

endpoint_explanation(sol_set) ==
    LET args == Args(sol_set)
        intervals == IF IsInterval(sol_set) THEN <<args[1]>>
                     ELSE IF IsUnion(sol_set) THEN SelectIntervals(args)
                     ELSE <<>>
    IN  IF intervals = <<>> THEN None
        ELSE PyList([i \in 1..Len(intervals) |-> ExplainInterval(intervals[i])])

(***************************************************************************)
(* plot_number_line (src/app.py 75-122): the baseline, then for every      *)
(* interval one thick segment and up to two endpoint markers.  The axis    *)
(* ticks, limits and title (77-83) draw nothing on the line and are left   *)
(* out.                                                                    *)
(***************************************************************************)
Max(a, b) == IF a >= b THEN a ELSE b
Min(a, b) == IF a <= b THEN a ELSE b

clamp(v, xmin, xmax) ==
    IF v = NegativeInfinity THEN xmin
    ELSE IF v = Infinity THEN xmax
    ELSE Max(xmin, Min(xmax, v[2]))

\* an end marker drawn without looking at the range
EndMarkerUnclipped(e, open, xmin, xmax) ==
    IF e \notin {NegativeInfinity, Infinity}
    THEN <<[x |-> e[2], fillstyle |-> IF Truthy(open) THEN "none" ELSE "full"]>>
    ELSE <<>>

\* the markers drawn for one end of an interval: none or one
EndMarker(e, open, xmin, xmax) ==
    IF e \notin {NegativeInfinity, Infinity} /\ xmin <= e[2] /\ e[2] <= xmax
    THEN <<[x |-> e[2], fillstyle |-> IF Truthy(open) THEN "none" ELSE "full"]>>
    ELSE <<>>

RECURSIVE DrawIntervals(_, _, _)
DrawIntervals(intervals, xmin, xmax) ==
    IF intervals = <<>> THEN [segments |-> <<>>, markers |-> <<>>]
    ELSE LET I == Head(intervals)
             rest == DrawIntervals(Tail(intervals), xmin, xmax)
         IN  [segments |-> <<<<clamp(I.start, xmin, xmax), clamp(I.end_, xmin, xmax)>>>>
                           \o rest.segments,
              markers |-> EndMarker(I.start, I.left_open, xmin, xmax)
                          \o EndMarker(I.end_, I.right_open, xmin, xmax)
                          \o rest.markers]

plot_number_line(sol_set, xmin, xmax) ==
    LET intervals == IF sol_set = EmptySet THEN <<>>
                     ELSE IF sol_set = Reals
                          THEN <<[cls |-> "Interval", start |-> NegativeInfinity,
                                  end_ |-> Infinity, left_open |-> S_true,
                                  right_open |-> S_true]>>
                     ELSE IF IsInterval(sol_set) THEN <<Args(sol_set)[1]>>
                     ELSE IF IsUnion(sol_set) THEN SelectIntervals(Args(sol_set))
                     ELSE <<>>
        d == DrawIntervals(intervals, xmin, xmax)
    IN  [baseline |-> <<xmin, xmax>>, segments |-> d.segments, markers |-> d.markers]


(***************************************************************************)
(* The relations the solver is run on: those of the exercise bank, and     *)
(* quotients of products of factors (x - r) compared with 0, as sympify    *)
(* builds them from the typed text.  sympify joins equal factors of a      *)
(* product on construction, (x-1)/(x-1) being 1, so the relation it hands  *)
(* on has no factor on both sides of the fraction bar.                     *)
(***************************************************************************)
Roots == (-MaxRoot)..MaxRoot
\* the non-decreasing sequences of at most two roots
RootBags == {<<>>} \cup {<<a>> : a \in Roots}
            \cup {p \in {<<a, b>> : a \in Roots, b \in Roots} : p[1] <= p[2]}

RECURSIVE RemoveOne(_, _)
RemoveOne(s, v) == IF s = <<>> THEN <<>>
                   ELSE IF Head(s) = v THEN Tail(s)
                   ELSE <<Head(s)>> \o RemoveOne(Tail(s), v)
Occurs(s, v) == \E i \in 1..Len(s) : s[i] = v
\* s without one occurrence of each element of t that it holds
RECURSIVE BagMinus(_, _)
BagMinus(s, t) == IF t = <<>> THEN s
                  ELSE BagMinus(RemoveOne(s, Head(t)), Tail(t))
\* the elements of t that were matched in s
RECURSIVE BagCommon(_, _)
BagCommon(s, t) == IF t = <<>> THEN <<>>
                   ELSE IF Occurs(s, Head(t))
                        THEN <<Head(t)>> \o BagCommon(RemoveOne(s, Head(t)), Tail(t))
                        ELSE BagCommon(s, Tail(t))

RECURSIVE Product(_)
Product(roots) == IF roots = <<>> THEN Int_(1)
                  ELSE IF Len(roots) = 1 THEN Sub(X, Int_(roots[1]))
                  ELSE Mul(Sub(X, Int_(Head(roots))), Product(Tail(roots)))

\* sympify of "(x-n1)*(x-n2)/((x-d1)*(x-d2))"
sympify_quotient(num, den) ==
    LET c == BagCommon(num, den)
        n == BagMinus(num, c)
        d == BagMinus(den, c)
    IN  IF d = <<>> THEN Product(n) ELSE Div(Product(n), Product(d))

Funcs == {"Lt", "Le", "Gt", "Ge"}
Relations ==
    {EXERCISES[i].ineq : i \in 1..Len(EXERCISES)}
    \cup {Relational(f, sympify_quotient(n, d), Int_(0)) :
              f \in Funcs, n \in RootBags, d \in RootBags}

\* the denominators of an expression
RECURSIVE Denoms(_)
Denoms(e) ==
    IF e.op \in {"x", "Int", "Symbol"} THEN {}
    ELSE IF e.op = "Abs" THEN Denoms(e.l)
    ELSE Denoms(e.l) \cup Denoms(e.r) \cup (IF e.op = "Div" THEN {e.r} ELSE {})

(***************************************************************************)
(* Values of the variables a specification does not use.                   *)
(***************************************************************************)
Unset == [cls |-> "unset"]
SetValue(A) == [cls |-> "Set", set |-> A]
DefaultView == <<-10, 10>>

ParseIdle == line = <<>> /\ rel = Unset
SessionIdle == /\ exercise = 1 /\ score = 0 /\ streak = 0 /\ topic_filter = "All"
               /\ last_solution = None /\ reveal = FALSE /\ user_answer = <<>>
               /\ student_set = Unset /\ correct = Unset /\ shown = "idle"
CoreIdle == /\ ineq = Unset /\ sol = Unset /\ endpoint_lines = Unset
            /\ view = DefaultView /\ plot = Unset
ExploreIdle == /\ raw = <<>> /\ pc = "idle" /\ parsed = <<>> /\ common = Unset
               /\ reported = <<>>

parseVars == <<line, rel>>
sessionVars == <<exercise, score, streak, topic_filter, last_solution, reveal,
                 user_answer, student_set, correct, shown>>
coreVars == <<ineq, sol, endpoint_lines, view, plot>>
exploreVars == <<raw, pc, parsed, common, reported>>

(***************************************************************************)
(* The core on one relation: solve_ineq, then plot_number_line under a     *)
(* range of the slider and endpoint_explanation (src/app.py 326-335).      *)
(***************************************************************************)
Views == {<<a, b>> : a \in (-MaxView)..MaxView, b \in (-MaxView)..MaxView}

InitCore ==
    /\ ParseIdle /\ SessionIdle /\ ExploreIdle
    /\ ineq \in Relations
    /\ sol = Unset /\ endpoint_lines = Unset /\ view = DefaultView /\ plot = Unset

Solve ==
    /\ ineq # Unset /\ sol = Unset
    /\ sol' = SetValue(solve_ineq(ineq))
    /\ UNCHANGED <<ineq, endpoint_lines, view, plot>>
    /\ UNCHANGED <<parseVars, sessionVars, exploreVars>>

Render(xmin, xmax) ==
    /\ sol # Unset /\ plot = Unset
    /\ xmin <= xmax
    /\ view' = <<xmin, xmax>>
    /\ plot' = plot_number_line(sol.set, xmin, xmax)
    /\ endpoint_lines' = endpoint_explanation(sol.set)
    /\ UNCHANGED <<ineq, sol>>
    /\ UNCHANGED <<parseVars, sessionVars, exploreVars>>

NextCore ==
    \/ Solve
    \/ \E v \in Views : Render(v[1], v[2])

SpecCore == InitCore /\ [][NextCore]_vars


(***************************************************************************)
(* Properties of the core.                                                 *)
(***************************************************************************)
\* the Interval arguments of a set, in the order of the canonical form
IntervalsOf(A) == SelectIntervals(Args(A))
\* the integers at which a denominator of lhs - rhs vanishes
Poles(r) ==
    {k \in Coords : \E d \in Denoms(Sub(r.lhs, r.rhs)) :
                        LET v == Eval(d, 2 * k) IN IsDefined(v) /\ v[1] = 0}
\* the integers at which the numerator of a quotient vanishes
NumeratorRoots(r) ==
    {k \in Coords : LET v == Eval(r.lhs.l, 2 * k) IN IsDefined(v) /\ v[1] = 0}
IsRational(r) == r.lhs.op = "Div" /\ r.rhs = Int_(0)

VisibleEnds(A, xmin, xmax) ==
    LET I == IntervalsOf(A)
    IN  {<<i, side>> \in (1..Len(I)) \X {"start", "end_"} :
            LET e == IF side = "start" THEN I[i].start ELSE I[i].end_
            IN  IsFinite(e) /\ xmin <= e[2] /\ e[2] <= xmax}
EndOf(A, p) == IF p[2] = "start" THEN IntervalsOf(A)[p[1]].start
               ELSE IntervalsOf(A)[p[1]].end_

\* C7: with xmin < xmax the markers are exactly one per finite interval end
\* inside [xmin, xmax], filled when the end belongs to the set and hollow
\* when it does not; no marker is at an infinite end or outside the range;
\* every thick segment lies in [xmin, xmax].
C7_MarkersAndSegments ==
    (plot # Unset /\ view[1] < view[2]) =>
        LET ends == VisibleEnds(sol.set, view[1], view[2])
            drawn == {plot.markers[i] : i \in 1..Len(plot.markers)}
        IN  /\ drawn = {[x |-> EndOf(sol.set, p)[2],
                         fillstyle |-> IF Pos(EndOf(sol.set, p)) \in sol.set
                                       THEN "full" ELSE "none"] : p \in ends}
            /\ Len(plot.markers) = Cardinality(ends)
            /\ Len(plot.segments) = Len(IntervalsOf(sol.set))
            /\ \A i \in 1..Len(plot.segments) :
                   /\ view[1] <= plot.segments[i][1]
                   /\ plot.segments[i][1] <= plot.segments[i][2]
                   /\ plot.segments[i][2] <= view[2]

C7_Witness ==
    /\ plot # Unset /\ view[1] < view[2]
    /\ \E i, j \in 1..Len(plot.markers) :
           plot.markers[i].fillstyle = "full" /\ plot.markers[j].fillstyle = "none"
    /\ \E i \in 1..Len(IntervalsOf(sol.set)) :
           /\ IntervalsOf(sol.set)[i].start = NegativeInfinity
           /\ IsFinite(IntervalsOf(sol.set)[i].end_)
           /\ IntervalsOf(sol.set)[i].end_[2] < view[1]

\* C9: endpoint_explanation returns None exactly when the set has no
\* interval; otherwise one description per interval, in increasing order of
\* start, a side labelled closed exactly when that endpoint belongs to the
\* interval, an infinite bound written -oo or oo and labelled open.
C9_EndpointLabels ==
    endpoint_lines # Unset =>
        LET I == IntervalsOf(sol.set)
        IN  /\ endpoint_lines = None <=> I = <<>>
            /\ endpoint_lines # None =>
                   /\ Len(endpoint_lines.items) = Len(I)
                   /\ \A i \in 1..Len(I) :
                          LET ln == endpoint_lines.items[i]
                          IN  /\ ln.a = fmt(I[i].start) /\ ln.b = fmt(I[i].end_)
                              /\ ln.left_label = "closed" <=> Pos(I[i].start) \in sol.set
                              /\ ln.right_label = "closed" <=> Pos(I[i].end_) \in sol.set
                              /\ ln.left_symbol = "[" <=> ln.left_label = "closed"
                              /\ ln.right_symbol = "]" <=> ln.right_label = "closed"
                              /\ I[i].start = NegativeInfinity =>
                                     ln.a = <<"-", "INF">> /\ ln.left_label = "open"
                              /\ I[i].end_ = Infinity =>
                                     ln.b = <<"INF">> /\ ln.right_label = "open"
                   /\ \A i, j \in 1..Len(I) : i < j => ELt(I[i].start, I[j].start)

(***************************************************************************)
(* normalize_input and parse_inequality (src/app.py 18-40).  The rewrite   *)
(* of abs( to Abs( (line 21) changes letters only; the lines of this model *)
(* are written over LineChars, which holds none of them.                   *)
(***************************************************************************)
LineChars == {"x", "1", "<", ">", "=", " ", "^"}

normalize_input(s) == Replace(Strip(s), "^", <<"*", "*">>)

\* the list searched in order, missing its last entry
ops_without_gt == << <<"<", "=">>, <<">", "=">>, <<"<">> >>
\* the list searched in order, the one-character tokens first
ops_short_first == << <<"<">>, <<">">>, <<"<", "=">>, <<">", "=">> >>

ops == << <<"<", "=">>, <<">", "=">>, <<"<">>, <<">">> >>

\* the class line 40 picks for a token
RelationClass(op) ==
    IF op = <<"<">> THEN "Lt" ELSE IF op = <<"<", "=">> THEN "Le"
    ELSE IF op = <<">">> THEN "Gt" ELSE "Ge"

ExprRaised(exc) == [kind |-> "raise", exc |-> exc, expr |-> Int_(0)]
Expr(e) == [kind |-> "expr", exc |-> "", expr |-> e]

\* a name (x, then letters and digits) or a decimal number
sympify_atom(t) ==
    IF t = <<>> THEN ExprRaised("SympifyError")
    ELSE IF \E i \in 1..Len(t) : t[i] \notin {"x"} \cup Digits THEN ExprRaised("SympifyError")
    ELSE IF t = <<"x">> THEN Expr(X)
    ELSE IF t[1] = "x" THEN Expr(Symbol(t))
    ELSE IF \A i \in 1..Len(t) : t[i] \in Digits THEN Expr(Int_(Decimal(t)))
    ELSE ExprRaised("SympifyError")

\* atom ** atom ** ... , the power grouping to the right
RECURSIVE sympify_power(_)
sympify_power(operands) ==
    LET a == sympify_atom(Strip(Head(operands)))
        rest == sympify_power(Tail(operands))
    IN  IF Len(operands) = 1 \/ a.kind = "raise" THEN a
        ELSE IF rest.kind = "raise" THEN rest
        ELSE Expr(Pow(a.expr, rest.expr))

\* sympify of one side of the line: an expression over x, numbers and **.
\* A side that still holds <, > or = is a syntax error or a truth value,
\* which the relation classes refuse.
sympify_side(t) ==
    IF \E i \in 1..Len(t) : t[i] \in {"<", ">", "="} THEN ExprRaised("SympifyError")
    ELSE sympify_power(Split(t, <<"*", "*">>))

\* the first entry of the list that occurs in the line, 0 when none does
RECURSIVE FirstOp(_, _, _)
FirstOp(l, list, i) ==
    IF i > Len(list) THEN 0
    ELSE IF Contains(l, list[i]) THEN i
    ELSE FirstOp(l, list, i + 1)

ParseRaised(exc) ==
    [kind |-> "raise", exc |-> exc, func |-> "", left |-> <<>>, right |-> <<>>,
     lhs |-> Int_(0), rhs |-> Int_(0)]

parse_inequality(text) ==
    LET l == normalize_input(text)
        i == FirstOp(l, ops, 1)
        op_found == ops[i]
        halves == Split1(l, op_found)
        left == Strip(halves[1])
        right == Strip(halves[2])
        L == sympify_side(left)
        R == sympify_side(right)
    IN  IF i = 0 THEN ParseRaised("ValueError")
        ELSE IF L.kind = "raise" THEN ParseRaised(L.exc)
        ELSE IF R.kind = "raise" THEN ParseRaised(R.exc)
        ELSE [kind |-> "Relational", exc |-> "", func |-> RelationClass(op_found),
              left |-> left, right |-> right, lhs |-> L.expr, rhs |-> R.expr]

(***************************************************************************)
(* parse_inequality on every line of at most MaxLineLen characters.        *)
(***************************************************************************)
InitParse ==
    /\ SessionIdle /\ CoreIdle /\ ExploreIdle
    /\ line = <<>> /\ rel = Unset

TypeChar(c) ==
    /\ rel = Unset
    /\ Len(line) < MaxLineLen
    /\ line' = Append(line, c)
    /\ UNCHANGED rel
    /\ UNCHANGED <<sessionVars, coreVars, exploreVars>>

ParseLine ==
    /\ rel = Unset
    /\ rel' = parse_inequality(line)
    /\ UNCHANGED line
    /\ UNCHANGED <<sessionVars, coreVars, exploreVars>>

NextParse ==
    \/ \E c \in LineChars : TypeChar(c)
    \/ ParseLine

SpecParse == InitParse /\ [][NextParse]_vars

\* the token occurs in l at index k and nowhere before
FirstAt(l, op, k) ==
    /\ k + Len(op) - 1 <= Len(l)
    /\ SubSeq(l, k, k + Len(op) - 1) = op
    /\ \A j \in 1..(k - 1) : SubSeq(l, j, j + Len(op) - 1) # op
OccursIn(l, op) == \E k \in 1..Len(l) : FirstAt(l, op, k)

\* C4: the relation parse_inequality returns has the operator of the first
\* token of <=, >=, <, > that occurs in the normalized line, and its sides
\* are the text before and after the first occurrence of that token; a line
\* with <= (or, without <=, with >=) is never parsed as < (or >).
C4_FirstListedOperator ==
    rel # Unset =>
        LET l == normalize_input(line)
            tokens == << <<"<", "=">>, <<">", "=">>, <<"<">>, <<">">> >>
            names == <<"Le", "Ge", "Lt", "Gt">>
        IN  /\ \A i \in 1..4 : \A k \in 1..Len(l) :
                   (/\ FirstAt(l, tokens[i], k)
                    /\ \A j \in 1..(i - 1) : ~OccursIn(l, tokens[j]))
                   => LET before == Strip(SubSeq(l, 1, k - 1))
                          after == Strip(SubSeq(l, k + Len(tokens[i]), Len(l)))
                      IN  IF /\ sympify_side(before).kind = "expr"
                             /\ sympify_side(after).kind = "expr"
                          THEN /\ rel.kind = "Relational"
                               /\ rel.func = names[i]
                               /\ rel.left = before /\ rel.right = after
                          ELSE rel.kind = "raise" /\ rel.exc # "ValueError"
            /\ rel.kind = "Relational" =>
                   /\ OccursIn(l, <<"<", "=">>) => rel.func = "Le"
                   /\ (OccursIn(l, <<">", "=">>) /\ ~OccursIn(l, <<"<", "=">>))
                          => rel.func = "Ge"

C4_Witness ==
    /\ rel # Unset /\ rel.kind = "Relational"
    /\ rel.func = "Le"
    /\ line = <<"x", "<", "=", "1">>

\* C5: parse_inequality fails with the "no operator" ValueError exactly on
\* the lines that hold none of <=, >=, <, >, and then returns no relation.
C5_NoOperatorError ==
    rel # Unset =>
        ((rel.kind = "raise" /\ rel.exc = "ValueError")
            <=> (\A i \in 1..Len(line) : line[i] \notin {"<", ">"}))

C5_Witness ==
    /\ rel # Unset /\ rel.kind = "raise" /\ rel.exc = "ValueError"
    /\ line = <<"x", "=", "1">>


(***************************************************************************)
(* The activity tab (src/app.py 266-390): one run of the script.           *)
(***************************************************************************)
ScoreStep == 10

\* a grader that takes an answer it cannot read for a wrong one
grade_unreadable_as_wrong(student, sol_) ==
    IF student.kind = "None" THEN PyFalse
    ELSE PyBool(simplify(student.set) = simplify(sol_))

\* line 338: None for an unreadable answer, else the equality of the sets
grade(student, sol_) ==
    IF student.kind = "None" THEN None
    ELSE PyBool(simplify(student.set) = simplify(sol_))

\* a check that takes the points back on a wrong answer
apply_verdict_with_penalty(c, sc, stk) ==
    IF PyIs(c, PyTrue)
    THEN [score |-> sc + ScoreStep, streak |-> stk + 1, shown |-> "success"]
    ELSE IF PyIs(c, PyFalse)
    THEN [score |-> IF sc > 0 THEN sc - ScoreStep ELSE 0, streak |-> 0, shown |-> "error"]
    ELSE [score |-> sc, streak |-> stk, shown |-> "warning"]

\* lines 340-349: what a check does with the verdict
apply_verdict(c, sc, stk) ==
    IF PyIs(c, PyTrue)
    THEN [score |-> sc + ScoreStep, streak |-> stk + 1, shown |-> "success"]
    ELSE IF PyIs(c, PyFalse)
    THEN [score |-> sc, streak |-> 0, shown |-> "error"]
    ELSE [score |-> sc, streak |-> stk, shown |-> "warning"]

\* lines 337-366: the verdict on a parsed answer, what the check does with
\* it, and the solution kept for the display and the report
block_result(sol_, st, c, do_check, ls) ==
    IF st.kind = "raise"
    THEN [score |-> score, streak |-> streak, shown |-> "exception",
          student_set |-> st, correct |-> Unset, last_solution |-> ls]
    ELSE [score |-> IF do_check THEN apply_verdict(c, score, streak).score ELSE score,
          streak |-> IF do_check THEN apply_verdict(c, score, streak).streak ELSE streak,
          shown |-> IF do_check THEN apply_verdict(c, score, streak).shown ELSE "none",
          student_set |-> st, correct |-> c,
          last_solution |-> [cls |-> "dict", sol_str |-> sol_,
                             endpoint_lines |-> endpoint_explanation(sol_),
                             plot_png |-> plot_number_line(sol_, DefaultView[1],
                                                           DefaultView[2])]]

\* line 338 on the solution and the parsed answer of this run
graded_block(sol_, st, do_check, ls) ==
    block_result(sol_, st, grade(st, sol_), do_check, ls)

\* lines 324-388: the block run when a button or the toggle asks for it, for
\* exercise ex, answer text and the last_solution ls the run started with.
\* An exception of parse_student_set leaves the block before anything is
\* stored.  The report of export_pdf (368-385) reads the session and writes
\* none of it.
activity_block(ex, text, do_check, ls) ==
    graded_block(compute_solution(ex), parse_student_set(text), do_check, ls)

\* the session and the locals a run leaves behind
Store(ex, filter, text, reveal_, out) ==
    /\ topic_filter' = filter
    /\ exercise' = ex
    /\ user_answer' = text
    /\ reveal' = reveal_
    /\ score' = out.score
    /\ streak' = out.streak
    /\ shown' = out.shown
    /\ student_set' = out.student_set
    /\ correct' = out.correct
    /\ last_solution' = out.last_solution
    /\ UNCHANGED <<parseVars, coreVars, exploreVars>>

\* a run in which no button and no toggle asks for the block
NoBlock(ls) ==
    [score |-> score, streak |-> streak, shown |-> "none",
     student_set |-> Unset, correct |-> Unset, last_solution |-> ls]

\* lines 273-275: the new-exercise button forgets the last solution
AfterButton(new_click) == IF new_click THEN None ELSE last_solution

\* one run of the script: the topic filter, the new-exercise button, then
\* the block
Rerun(filter, text, do_check, reveal_, export_pdf, new_click) ==
    \E ex \in (IF new_click THEN pick_random_exercise(filter) ELSE {exercise}) :
        Store(ex, filter, text, reveal_,
              IF do_check \/ reveal_ \/ export_pdf
              THEN activity_block(ex, text, do_check, AfterButton(new_click))
              ELSE NoBlock(AfterButton(new_click)))

\* the user's actions
TypeAnswer(text) == Rerun(topic_filter, text, FALSE, reveal, FALSE, FALSE)
Check == Rerun(topic_filter, user_answer, TRUE, reveal, FALSE, FALSE)
ToggleReveal == Rerun(topic_filter, user_answer, FALSE, ~reveal, FALSE, FALSE)
ExportPdf == Rerun(topic_filter, user_answer, FALSE, reveal, TRUE, FALSE)
NewExercise == Rerun(topic_filter, user_answer, FALSE, reveal, FALSE, TRUE)
SelectTopic(t) == t # topic_filter /\ Rerun(t, user_answer, FALSE, reveal, FALSE, FALSE)

\* lines 241-250: the first run of a session
InitSession ==
    /\ ParseIdle /\ CoreIdle /\ ExploreIdle
    /\ exercise \in pick_random_exercise("All")
    /\ score = 0 /\ streak = 0 /\ topic_filter = "All" /\ last_solution = None
    /\ reveal = FALSE /\ user_answer = <<>>
    /\ student_set = Unset /\ correct = Unset /\ shown = "idle"


(***************************************************************************)
(* Grading: one check of an answer typed part by part.  The answers are    *)
(* whole-text tokens and blanks, and unions of at most MaxParts parts,     *)
(* well formed or not.                                                     *)
(***************************************************************************)
BoundPairs == { << <<"-", "INF">>, <<"-", "2">> >>,
                << <<"1">>, <<"INF">> >> }
AnswerParts ==
    {<<b[1]>> \o pr[1] \o <<",">> \o pr[2] \o <<b[2]>> :
         b \in {"(", "["} \X {")", "]"}, pr \in BoundPairs}
    \cup { <<"(", "1", ",", "-", ")">>, <<"(", "1", ",", "4">>,
           <<"1", ",", "4", ")">>, <<"(", "1", " ", "4", ")">> }
UnionMarks == { <<"U">>, <<" ", "CUP", " ">> }
WholeAnswers == { <<" ">>, <<" ", "NL">>, <<"EMPTY">>, <<" ", "EMPTY", " ">>, <<"R">>,
                  <<"BBR">>, <<"E", "m", "p", "t", "y", "S", "e", "t">>,
                  <<"R", "e", "a", "l", "s">>, <<"r">> }

PartCount(t) == Len(Split(Replace(t, "CUP", <<"U">>), <<"U">>))
\* the texts one more stroke of typing leads to
Extensions(t) ==
    IF t = <<>> THEN WholeAnswers \cup AnswerParts
    ELSE IF t \in WholeAnswers \/ PartCount(t) >= MaxParts THEN {}
    ELSE {t \o u \o q : u \in UnionMarks, q \in AnswerParts}

CheckRan == shown \in {"success", "error", "warning", "exception"}

GradeType(text) == ~CheckRan /\ TypeAnswer(text)
GradeCheck == ~CheckRan /\ Check

NextGrade ==
    \/ \E text \in Extensions(user_answer) : GradeType(text)
    \/ GradeCheck

SpecGrade == InitSession /\ [][NextGrade]_vars

\* C1: when parse_student_set yields a set T the verdict is the boolean
\* T = S for the reference solution S, and when it yields None the verdict
\* is None, neither True nor False.
C1_VerdictIsSetEquality ==
    CheckRan =>
        LET p == parse_student_set(user_answer)
            S == compute_solution(exercise)
        IN  /\ p.kind = "Set" =>
                   /\ correct = PyBool(p.set = S)
                   /\ shown = IF p.set = S THEN "success" ELSE "error"
            /\ p.kind = "None" =>
                   /\ correct = None
                   /\ shown = "warning"

C1_Witness ==
    /\ CheckRan
    /\ exercise = 5
    /\ user_answer = <<"(", "-", "INF", ",", "-", "2", ")", " ", "CUP", " ",
                       "[", "1", ",", "INF", ")">>
    /\ correct = PyTrue

\* a bound as the grammar has it: a numeric literal or an infinity token
IsBoundLiteral(v) ==
    LET u == IF v # <<>> /\ Head(v) = "-" THEN Tail(v) ELSE v
    IN  \/ u = <<"o", "o">>
        \/ u # <<>> /\ \A i \in 1..Len(u) : u[i] \in Digits
\* a part as the grammar has it: bracket, bound, comma, bound, bracket
IsWellFormedPart(q) ==
    \E k \in 3..(Len(q) - 2) :
        /\ q[1] \in {"(", "["} /\ q[Len(q)] \in {")", "]"}
        /\ q[k] = ","
        /\ IsBoundLiteral(SubSeq(q, 2, k - 1))
        /\ IsBoundLiteral(SubSeq(q, k + 1, Len(q) - 1))
\* the parts of an answer, after the union sign, the infinity sign and the
\* blanks are rewritten
PartsOf(text) ==
    Split(Replace(Replace(Replace(Strip(text), "CUP", <<"U">>), "INF", <<"o", "o">>),
                  " ", <<>>), <<"U">>)
IsToken(text) == Replace(Strip(text), "CUP", <<"U">>) \in EmptyTokens \cup RealsTokens

\* C2: a non-empty answer that is no token and has a part outside the
\* grammar makes parse_student_set return None (it neither raises nor
\* returns a set), and the check reports "format not understood".
C2_MalformedPartIsNone ==
    (/\ CheckRan
     /\ Strip(user_answer) # <<>>
     /\ ~IsToken(user_answer)
     /\ \E i \in 1..Len(PartsOf(user_answer)) : ~IsWellFormedPart(PartsOf(user_answer)[i]))
    => (student_set.kind = "None" /\ correct = None /\ shown = "warning")

\* C3: a blank answer parses to None, not to the empty set, and its check is
\* ungraded for every exercise: a warning, no verdict, no change of score
\* or streak.
C3_BlankIsUngraded ==
    (CheckRan /\ Strip(user_answer) = <<>>) =>
        /\ student_set.kind = "None"
        /\ student_set # ReturnSet(EmptySet)
        /\ correct = None
        /\ shown = "warning"
        /\ score = 0 /\ streak = 0

C3_Witness ==
    /\ CheckRan
    /\ user_answer = <<" ", "NL">>
    /\ student_set = ReturnNone
    /\ shown = "warning"

(***************************************************************************)
(* A session: any sequence of the user's actions, with at most MaxChecks   *)
(* correct checks.                                                         *)
(***************************************************************************)
SessionAnswers ==
    { <<>>, <<" ">>, <<"EMPTY">>,
      <<"(", "1", ",", "-", ")">>,
      <<"(", "1", ",", "4">>,
      <<"(", "-", "INF", ",", "4", "]">>,
      <<"(", "-", "INF", ",", "-", "2", ")", "U", "[", "1", ",", "INF", ")">> }

SessionCheck == score < ScoreStep * MaxChecks /\ Check

NextSession ==
    \/ \E text \in SessionAnswers : text # user_answer /\ TypeAnswer(text)
    \/ SessionCheck
    \/ ToggleReveal
    \/ ExportPdf
    \/ NewExercise
    \/ \E t \in Topics : SelectTopic(t)

SpecSession == InitSession /\ [][NextSession]_vars

\* what one step may do to the counters: a success adds ScoreStep and one,
\* an error resets the streak, anything else leaves both
CounterStep ==
    \/ /\ shown' = "success" /\ correct' = PyTrue
       /\ score' = score + ScoreStep /\ streak' = streak + 1
    \/ /\ shown' = "error" /\ correct' = PyFalse
       /\ score' = score /\ streak' = 0
    \/ /\ shown' \in {"warning", "exception", "none"}
       /\ score' = score /\ streak' = streak

\* C10: from score = 0 and streak = 0, score is a non-negative multiple of
\* 10 that never decreases and 10 * streak <= score; a check graded correct
\* adds 10 and 1, a check graded incorrect resets the streak and keeps the
\* score, and every other run (an ungraded check, an exception, the toggle,
\* the export, a new exercise) leaves both.
C10_ScoreAndStreak ==
    /\ [](score >= 0 /\ score % 10 = 0 /\ streak >= 0 /\ 10 * streak <= score)
    /\ [][CounterStep]_vars
    /\ [](shown = "success" =>
            parse_student_set(user_answer) = ReturnSet(compute_solution(exercise)))
    /\ [](shown = "error" =>
            /\ parse_student_set(user_answer).kind = "Set"
            /\ parse_student_set(user_answer).set # compute_solution(exercise))

C10_Witness ==
    /\ score = 20 /\ streak = 1
    /\ shown = "exception"


(***************************************************************************)
(* The explore tab (src/app.py 392-429): the run started by the solve      *)
(* button, one step per line of the loop, then the intersection, then the  *)
(* display.  Nothing in the tab catches an exception: the first one ends   *)
(* the run.                                                                *)
(***************************************************************************)
ExploreLines ==
    { <<"x", "<", "2">>,
      <<"x", ">", "=", "1">>,
      <<" ", "x", "^", "2", "<", "=", "1">>,
      <<"1", "<", "2">>,
      <<"x", "=", "1">>,
      <<"x", "<">>,
      <<"x", "1", "<", "2">>,
      <<" ">> }

\* [ln.strip() for ln in raw.splitlines() if ln.strip()]
RECURSIVE NonBlankLines(_)
NonBlankLines(r) ==
    IF r = <<>> THEN <<>>
    ELSE (IF Strip(Head(r)) # <<>> THEN <<Strip(Head(r))>> ELSE <<>>)
         \o NonBlankLines(Tail(r))

\* whether an expression holds a symbol other than x
RECURSIVE HasOtherSymbol(_)
HasOtherSymbol(e) ==
    IF e.op = "Symbol" THEN TRUE
    ELSE IF e.op \in {"x", "Int"} THEN FALSE
    ELSE IF e.op = "Abs" THEN HasOtherSymbol(e.l)
    ELSE HasOtherSymbol(e.l) \/ HasOtherSymbol(e.r)

Failed(exc) == [ok |-> FALSE, exc |-> exc, sol |-> {}]
Solved(A) == [ok |-> TRUE, exc |-> "", sol |-> A]

\* lines 405-406 for one line: parse_inequality raises, or solve_ineq raises
\* (a relation in another symbol cannot be decided for x), or the solution
line_result(text) ==
    LET r == parse_inequality(text)
    IN  IF r.kind = "raise" THEN Failed(r.exc)
        ELSE IF HasOtherSymbol(r.lhs) \/ HasOtherSymbol(r.rhs)
             THEN Failed("NotImplementedError")
        ELSE Solved(solve_ineq(Relational(r.func, r.lhs, r.rhs)))

\* a loop that takes a failing line for one without solutions and goes on
after_line_swallowing(text, res, done) ==
    [pc |-> "loop", parsed |-> Append(done, <<text, IF res.ok THEN res.sol ELSE EmptySet>>)]

\* lines 404-408: the loop goes on after a solved line and the run ends at
\* a failing one
after_line(text, res, done) ==
    IF res.ok THEN [pc |-> "loop", parsed |-> Append(done, <<text, res.sol>>)]
    ELSE [pc |-> "failed", parsed |-> done]

\* lines 410-413
RECURSIVE IntersectAll(_, _)
IntersectAll(acc, sols) ==
    IF sols = <<>> THEN acc
    ELSE IntersectAll(Intersection(acc, Head(sols)), Tail(sols))

InitExplore ==
    /\ ParseIdle /\ SessionIdle /\ CoreIdle
    /\ raw = <<>> /\ pc = "idle" /\ parsed = <<>> /\ common = Unset /\ reported = <<>>

TypeLine(text) ==
    /\ pc = "idle"
    /\ Len(raw) < MaxLines
    /\ raw' = Append(raw, text)
    /\ UNCHANGED <<pc, parsed, common, reported>>
    /\ UNCHANGED <<parseVars, sessionVars, coreVars>>

ClickSolve ==
    /\ pc = "idle"
    /\ pc' = IF NonBlankLines(raw) = <<>> THEN "warned" ELSE "loop"
    /\ UNCHANGED <<raw, parsed, common, reported>>
    /\ UNCHANGED <<parseVars, sessionVars, coreVars>>

LoopStep ==
    /\ pc = "loop"
    /\ Len(parsed) < Len(NonBlankLines(raw))
    /\ LET text == NonBlankLines(raw)[Len(parsed) + 1]
           next == after_line(text, line_result(text), parsed)
       IN  pc' = next.pc /\ parsed' = next.parsed
    /\ UNCHANGED <<raw, common, reported>>
    /\ UNCHANGED <<parseVars, sessionVars, coreVars>>

Combine ==
    /\ pc = "loop"
    /\ Len(parsed) = Len(NonBlankLines(raw))
    /\ LET sols == [i \in 1..Len(parsed) |-> parsed[i][2]]
       IN  common' = SetValue(simplify(IntersectAll(Head(sols), Tail(sols))))
    /\ pc' = "report"
    /\ UNCHANGED <<raw, parsed, reported>>
    /\ UNCHANGED <<parseVars, sessionVars, coreVars>>

\* lines 415-428: each line with its solution, then the intersection
Report ==
    /\ pc = "report"
    /\ reported' = [i \in 1..Len(parsed) |->
                        [n |-> i, line |-> parsed[i][1], sol |-> parsed[i][2]]]
    /\ pc' = "done"
    /\ UNCHANGED <<raw, parsed, common>>
    /\ UNCHANGED <<parseVars, sessionVars, coreVars>>

NextExplore ==
    \/ \E text \in ExploreLines : TypeLine(text)
    \/ ClickSolve
    \/ LoopStep
    \/ Combine
    \/ Report

SpecExplore == InitExplore /\ [][NextExplore]_vars

\* whether line i of the batch fails to parse or to solve
LineFails(i) == ~line_result(NonBlankLines(raw)[i]).ok

\* C8: the lines are taken in input order and reported one by one; the batch
\* stops at the first line that fails to parse or solve: no later line is
\* parsed or solved, and nothing is combined or shown for that batch.
C8_StopsAtFirstFailure ==
    LET lines == NonBlankLines(raw)
    IN  /\ Len(parsed) <= Len(lines)
        /\ \A i \in 1..Len(parsed) :
               /\ ~LineFails(i)
               /\ parsed[i] = <<lines[i], line_result(lines[i]).sol>>
        /\ pc = "failed" =>
               /\ Len(parsed) < Len(lines)
               /\ LineFails(Len(parsed) + 1)
               /\ common = Unset /\ reported = <<>>
        /\ (\E i \in 1..Len(lines) : LineFails(i)) =>
               /\ common = Unset /\ reported = <<>>
               /\ pc \in {"idle", "loop", "failed"}
        /\ pc = "done" =>
               /\ Len(reported) = Len(lines)
               /\ \A i \in 1..Len(lines) :
                      /\ reported[i].n = i
                      /\ reported[i].line = lines[i]
                      /\ reported[i].sol = line_result(lines[i]).sol
               /\ \A c \in Cells :
                      c \in common.set <=> \A i \in 1..Len(lines) : c \in reported[i].sol

\* a run that ended at its second line, after the first was solved
C8_Witness ==
    /\ pc = "failed"
    /\ Len(parsed) = 1
    /\ Len(NonBlankLines(raw)) >= 2

====
